---- MODULE Spec2Model ----
(***************************************************************************)
(* A model of irc_bot/bot.py: the receive loop and dispatcher of Bot, the  *)
(* command / regex / require_admin wrappers, the asyncio tasks they spawn, *)
(* the delayed join task, the control socket server, the registration of   *)
(* plugin classes and the loops of the periodic tasks.                     *)
(*                                                                         *)
(* Text is modelled character by character: a Python str is a sequence of  *)
(* one-character strings, and str.partition, str.startswith, str.strip,    *)
(* str.split and the `in` test are computed on those sequences.            *)
(*                                                                         *)
(* asyncio is cooperative: a coroutine runs without interruption from one  *)
(* suspension point to the next.  Every action below is one such stretch.  *)
(***************************************************************************)
EXTENDS Naturals, Sequences, FiniteSets

VARIABLES
    password,   \* Bot.password ( <<>> when not configured )
    feed,       \* the chunks the server may deliver to one read
    reads,      \* number of reads of the server connection completed so far
    pc,         \* where Bot._start_irc_bot is suspended
    cur,        \* the line whose processing a reconnect has suspended
    rest,       \* the lines of the current chunk still to be processed
    conn,       \* which connection Bot._writer is (0: attribute not yet set)
    open,       \* whether Bot._writer has not been closed
    triggers,   \* the Trigger objects created so far (shared, mutable)
    tasks,      \* the handler tasks made by asyncio.create_task
    joins,      \* connections whose Bot._join_channels task is still asleep
    ctl,        \* state of the control connection
    ctlReads,   \* number of inputs the control peer has sent so far
    ctlBuf,     \* bytes the control peer has sent that no read has returned yet
    reg,        \* the class attributes Bot._attrs, _actions, _periodic_tasks
    per,        \* the loops of the periodic tasks, one per _periodic_tasks entry
    hist        \* everything observable that has happened, in order

vars == <<password, feed, reads, pc, cur, rest, conn, open, triggers, tasks,
          joins, ctl, ctlReads, ctlBuf, reg, per, hist>>

----------------------------------------------------------------------------
(* Bounds of the model.                                                    *)

MaxReads == 2
MaxCtlReads == 1
MaxPlugins == 2

\* program constants
MAX_RECV_BYTES == 8192
CTL_READ_BYTES == 100

----------------------------------------------------------------------------
(* Python str operations, on sequences of characters.                      *)

Whitespace == {" ", "\t", "\r", "\n"}

\* str.startswith
StartsWith(s, p) == Len(s) >= Len(p) /\ SubSeq(s, 1, Len(p)) = p

\* str.find, 1-based; 0 when p does not occur in s
Find(s, p) ==
    LET hits == {i \in 1..(Len(s) + 1) :
                    i + Len(p) - 1 <= Len(s) /\ SubSeq(s, i, i + Len(p) - 1) = p}
    IN  IF hits = {} THEN 0 ELSE CHOOSE i \in hits : \A j \in hits : i <= j

\* p in s
Contains(s, p) == Find(s, p) # 0

\* str.partition(sep)[0]
PartitionHead(s, sep) ==
    IF Contains(s, sep) THEN SubSeq(s, 1, Find(s, sep) - 1) ELSE s

\* str.partition(sep)[2]
PartitionTail(s, sep) ==
    IF Contains(s, sep) THEN SubSeq(s, Find(s, sep) + Len(sep), Len(s)) ELSE <<>>

\* str.lstrip(chars)
RECURSIVE LStrip(_, _)
LStrip(s, chars) ==
    IF s # <<>> /\ Head(s) \in chars THEN LStrip(Tail(s), chars) ELSE s

\* str.rstrip(chars)
RECURSIVE RStrip(_, _)
RStrip(s, chars) ==
    IF s # <<>> /\ s[Len(s)] \in chars
    THEN RStrip(SubSeq(s, 1, Len(s) - 1), chars) ELSE s

\* str.strip()
Strip(s) == RStrip(LStrip(s, Whitespace), Whitespace)

\* str.split(sep): "".split(sep) is [""]
RECURSIVE Split(_, _)
Split(s, sep) ==
    IF Contains(s, sep)
    THEN <<PartitionHead(s, sep)>> \o Split(PartitionTail(s, sep), sep)
    ELSE <<s>>

----------------------------------------------------------------------------
(* The character strings the code and the wire use.                        *)

SP == <<" ">>
COLON == <<":">>
BANG == <<"!">>
CRLF == <<"\r", "\n">>
LF == <<"\n">>
QUOTE == <<"'">>
PING == <<"P", "I", "N", "G">>
PONG == <<"P", "O", "N", "G">>
ERROR == <<"E", "R", "R", "O", "R">>
KICK == <<"K", "I", "C", "K">>
JOIN == <<"J", "O", "I", "N">>
USER == <<"U", "S", "E", "R">>
NICK == <<"N", "I", "C", "K">>
PRIVMSG == <<"P", "R", "I", "V", "M", "S", "G">>
NICKSERV_IDENTIFY ==
    <<"N", "i", "c", "k", "S", "e", "r", "v", " ", ":",
      "I", "D", "E", "N", "T", "I", "F", "Y", " ">>
UNKNOWN_CHANNEL ==
    <<"U", "n", "k", "n", "o", "w", "n", " ", "c", "h", "a", "n", "n", "e", "l", ":", " ">>

----------------------------------------------------------------------------
(* The configuration of the bot under test (Bot.__init__).                 *)

hostname == <<"h">>
nick == <<"b", "o", "t">>
ChanA == <<"#", "a">>
ChanAB == <<"#", "a", "b">>
\* two channels, one a prefix of the other
channels == <<ChanA, ChanAB>>
Alice == <<"a", "l">>
Mallory == <<"m", "o">>
admins == {Alice}
Passwords == {<<>>, <<"p", "w">>}

----------------------------------------------------------------------------
(* The plugin handlers registered with the bot.  Bot._actions is filled by *)
(* Bot.__init_subclass__ from the methods that command() or regex() has    *)
(* marked _registered; each entry here is one such method:                 *)
(*   kind  "command": @command(pat)     "regex": @regex("^" pat "(.+)$")   *)
(*   gate  "none":  no @require_admin                                      *)
(*         "outer": @require_admin above @command / @regex                 *)
(*         "inner": @command / @regex above @require_admin                 *)

CmdPing == <<"!", "p">>
CmdOp == <<"!", "o">>
PatEcho == <<"!", "e", " ">>
PatAny == <<"!", "e">>

_actions ==
    << [name |-> "ping", kind |-> "command", pat |-> CmdPing, gate |-> "none"],
       [name |-> "echo", kind |-> "regex",   pat |-> PatEcho, gate |-> "none"],
       [name |-> "any",  kind |-> "regex",   pat |-> PatAny,  gate |-> "none"],
       [name |-> "op",   kind |-> "command", pat |-> CmdOp,   gate |-> "outer"],
       [name |-> "op2",  kind |-> "command", pat |-> CmdOp,   gate |-> "inner"] >>

\* what a handler body says when it answers
Reply == <<"o", "k">>

----------------------------------------------------------------------------
(* The state the coroutines of the bot share, as one record, so that the   *)
(* methods below are functions from state to state.                        *)

St ==
    [pc |-> pc, cur |-> cur, rest |-> rest, conn |-> conn, open |-> open,
     triggers |-> triggers, tasks |-> tasks, joins |-> joins, hist |-> hist,
     reads |-> reads, by |-> "main", who |-> 0, exc |-> FALSE]

\* the same state, seen from another coroutine: a handler task ("task"), a
\* join task ("join") or the control connection ("ctl")
As(by, who) == [St EXCEPT !.by = by, !.who = who]

Apply(s) ==
    /\ pc' = s.pc
    /\ cur' = s.cur
    /\ rest' = s.rest
    /\ conn' = s.conn
    /\ open' = s.open
    /\ triggers' = s.triggers
    /\ tasks' = s.tasks
    /\ joins' = s.joins
    /\ hist' = s.hist

\* one entry of hist: what happened (e), in which coroutine (by, who), with
\* Bot._writer being which connection (conn), to what (id, data)
Ev(e, by, who, c, i, d) ==
    [e |-> e, by |-> by, who |-> who, conn |-> c, id |-> i, data |-> d]

Log(s, e, i, d) ==
    [s EXCEPT !.hist = Append(@, Ev(e, s.by, s.who, s.conn, i, d))]

\* the value None of Trigger.group
None == <<"None">>

\* Trigger.__init__
Trigger(channel, n, message) ==
    [channel |-> channel, nick |-> n, message |-> message, group |-> None]

\* StreamWriter.write on Bot._writer: AttributeError while the attribute is
\* not set; the transport discards what is written after close()
write(s, data) ==
    IF s.exc THEN s
    ELSE IF s.conn = 0 THEN [s EXCEPT !.exc = TRUE]
    ELSE Log(s, IF s.open THEN "write" ELSE "lost", 0, data)

----------------------------------------------------------------------------
(* Outbound commands.                                                      *)

_say(s, message, channel) ==
    IF message # <<>>
    THEN write(s, PRIVMSG \o SP \o channel \o SP \o COLON \o message \o CRLF)
    ELSE s

RECURSIVE SayAll(_, _, _)
SayAll(s, message, chans) ==
    IF chans = <<>> THEN s
    ELSE SayAll(_say(s, message, Head(chans)), message, Tail(chans))

say(s, message, channel) ==
    IF channel # <<>> THEN _say(s, message, channel)
    ELSE SayAll(s, message, channels)

_register(s) ==
    write(s, USER \o SP \o nick \o SP \o <<"8", " ", "*", " ", ":">> \o nick \o CRLF)

_set_nick(s) == write(s, NICK \o SP \o nick \o CRLF)

_identify(s, pw) ==
    write(s, PRIVMSG \o SP \o NICKSERV_IDENTIFY \o pw \o CRLF)

_join(s, channel) == write(s, JOIN \o SP \o channel \o CRLF)

\* the loop of Bot._join_channels, after its sleep
RECURSIVE JoinAll(_, _)
JoinAll(s, chans) ==
    IF chans = <<>> THEN s ELSE JoinAll(_join(s, Head(chans)), Tail(chans))

_join_channels(s) == JoinAll(s, channels)

----------------------------------------------------------------------------
(* Connection life cycle.                                                  *)

\* mutant: the NickServ IDENTIFY is left out
_connect_no_identify(s, pw) ==
    LET s1 == Log([s EXCEPT !.conn = s.conn + 1, !.open = TRUE], "open", 0, <<>>)
        s2 == _set_nick(_register(s1))
    IN  [s2 EXCEPT !.joins = @ \cup {s2.conn}]

\* Bot._connect from the point where asyncio.open_connection has returned
_connect(s, pw) ==
    LET s1 == Log([s EXCEPT !.conn = s.conn + 1, !.open = TRUE], "open", 0, <<>>)
        s2 == _set_nick(_register(s1))
        s3 == IF pw # <<>> THEN _identify(s2, pw) ELSE s2
    IN  [s3 EXCEPT !.joins = @ \cup {s3.conn}]

\* Bot._close_writer up to its await of wait_closed()
_close_writer(s) == Log([s EXCEPT !.open = FALSE], "close", 0, <<>>)

\* Bot._reconnect up to its first suspension; Reconnected resumes it
_reconnect(s) == [_close_writer(s) EXCEPT !.pc = "reconnecting"]

\* Bot._shutdown up to its suspension; Exit resumes it
_shutdown(s) == [_close_writer(s) EXCEPT !.pc = "shutting"]

----------------------------------------------------------------------------
(* Dispatch: the wrappers that command(), regex() and require_admin put    *)
(* around a handler, and the loop that calls them.                         *)

\* re.match("^" pat "(.+)$", message): whether it matches, and group(1).
\* "." matches no newline.
ReMatch(pat, message) ==
    LET g == SubSeq(message, Len(pat) + 1, Len(message))
    IN  [ok |-> StartsWith(message, pat) /\ g # <<>> /\ ~Contains(g, LF),
         group |-> g]

\* mutant: the gate lets every nick through
require_admin_off(s, t) == TRUE

\* the test of require_admin._wrapper
require_admin(s, t) == s.triggers[t].nick \in admins

\* mutant: the wrapper awaits the handler instead of spawning it
create_task_awaited(s, h, t, own) ==
    LET task == [h |-> h, trig |-> t, awaited |-> TRUE, st |-> "ready",
                 own |-> own, seen |-> None, born |-> s.reads, ran |-> 0]
    IN  Log([s EXCEPT !.tasks = Append(@, task)], "launch", Len(s.tasks) + 1, <<>>)

\* asyncio.create_task(func(bot, trigger)): the new task is only scheduled;
\* nothing waits for it.  own is the group of the handler's own match.
create_task(s, h, t, own) ==
    LET task == [h |-> h, trig |-> t, awaited |-> FALSE, st |-> "ready",
                 own |-> own, seen |-> None, born |-> s.reads, ran |-> 0]
    IN  Log([s EXCEPT !.tasks = Append(@, task)], "launch", Len(s.tasks) + 1, <<>>)

\* command._wrapper
command(s, h, t) ==
    IF _actions[h].pat = s.triggers[t].message
    THEN create_task(s, h, t, None)
    ELSE s

\* regex._wrapper: the match's groups are stored in the Trigger it was given
regex(s, h, t) ==
    LET m == ReMatch(_actions[h].pat, s.triggers[t].message)
    IN  IF m.ok
        THEN create_task([s EXCEPT !.triggers[t].group = m.group], h, t, m.group)
        ELSE s

\* getattr(self, action)(trigger): the outermost wrapper of handler h
CallAction(s, h, t) ==
    LET inner == IF _actions[h].kind = "command" THEN command(s, h, t)
                 ELSE regex(s, h, t)
    IN  IF _actions[h].gate = "outer"
        THEN (IF require_admin(s, t) THEN inner ELSE s)
        ELSE inner

RECURSIVE CallActions(_, _, _)
CallActions(s, h, t) ==
    IF h > Len(_actions) THEN s
    ELSE CallActions(CallAction(s, h, t), h + 1, t)

\* Bot._process_message
_process_message(s, t) == CallActions(s, 1, t)

\* Bot._get_nick
_get_nick(text) == LStrip(PartitionHead(text, BANG), {":"})

\* mutant: the text after the first colon of the line
_get_message_first_colon(text) == PartitionTail(text, COLON)

\* Bot._get_message
_get_message(text) == PartitionTail(PartitionTail(text, PRIVMSG), COLON)

\* the body of the loop over self.channels in Bot._process_line
RECURSIVE LineChannels(_, _, _, _, _)
LineChannels(s, text, n, message, chans) ==
    IF chans = <<>> THEN s
    ELSE IF Contains(text, PRIVMSG \o SP \o Head(chans))
    THEN LET t  == Len(s.triggers) + 1
             s1 == [s EXCEPT !.triggers = Append(@, Trigger(Head(chans), n, message))]
         IN  LineChannels(_process_message(Log(s1, "trigger", t, <<>>), t),
                          text, n, message, Tail(chans))
    ELSE LineChannels(s, text, n, message, Tail(chans))

\* Bot._process_line
_process_line(s, text) ==
    LET n       == _get_nick(text)
        message == _get_message(text)
    IN  IF ~StartsWith(message, nick \o COLON) THEN s
        ELSE LineChannels(s, text, n, Strip(PartitionTail(message, COLON)), channels)

\* mutant: only the bare word is answered
_reply_to_ping_exact(s, text) ==
    IF text = PING THEN write(s, PONG \o SP \o COLON \o hostname \o CRLF)
    ELSE s

\* Bot._reply_to_ping
_reply_to_ping(s, text) ==
    IF StartsWith(text, PING) THEN write(s, PONG \o SP \o COLON \o hostname \o CRLF)
    ELSE s

\* Bot._handle_error_response
_handle_error_response(s, text) ==
    IF StartsWith(text, ERROR) THEN _reconnect(s) ELSE s

\* Bot._handle_empty_response
_handle_empty_response(s, text) ==
    IF text = <<>> THEN _shutdown(s) ELSE s

RECURSIVE RejoinChannels(_, _, _)
RejoinChannels(s, text, chans) ==
    IF chans = <<>> THEN s
    ELSE RejoinChannels(
            IF Contains(text, KICK \o SP \o Head(chans) \o SP \o nick)
            THEN _join(s, Head(chans)) ELSE s,
            text, Tail(chans))

\* Bot._rejoin_when_kicked
_rejoin_when_kicked(s, text) == RejoinChannels(s, text, channels)

\* Bot._process_text.  The loop runs until the chunk is used up or a line
\* suspends it: an ERROR line in _reconnect (resumed by Reconnected at
\* ResumeLine), an empty line in _shutdown (never resumed: sys.exit).
RECURSIVE _process_lines(_, _)
RECURSIVE ResumeLine(_, _, _)
ResumeLine(s, line, more) ==
    LET s1 == _handle_empty_response(s, line)
    IN  IF s1.pc = "shutting" THEN s1
        ELSE _process_lines(_process_line(_rejoin_when_kicked(s1, line), line), more)

_process_lines(s, lines) ==
    IF lines = <<>> THEN [s EXCEPT !.pc = "recv", !.cur = <<>>, !.rest = <<>>]
    ELSE LET line == Head(lines)
             s1   == _reply_to_ping(Log(s, "line", 0, line), line)
             s2   == _handle_error_response(s1, line)
         IN  IF s2.pc = "reconnecting"
             THEN [s2 EXCEPT !.cur = line, !.rest = Tail(lines)]
             ELSE ResumeLine(s2, line, Tail(lines))

_process_text(s, text) == _process_lines(s, Split(text, CRLF))

\* a byte that is not valid UTF-8
BadByte == "<ff>"

\* bytes.decode(errors="ignore")
DecodeIgnore(data) == SelectSeq(data, LAMBDA c : c # BadByte)

\* Bot._recv, given the bytes the server has sent: read() returns at most
\* MAX_RECV_BYTES of them
_recv(data) ==
    Strip(DecodeIgnore(SubSeq(data, 1, IF Len(data) < MAX_RECV_BYTES
                                       THEN Len(data) ELSE MAX_RECV_BYTES)))

----------------------------------------------------------------------------
(* The control socket server.                                              *)

\* StreamWriter.write on the control connection
CtlWrite(s, data) == Log(s, "ctl_write", 0, data)

InChannels(c) == \E i \in 1..Len(channels) : channels[i] = c

\* Bot._process_socket_server_text
_process_socket_server_text(s, text) ==
    LET channel == PartitionHead(text, SP)
        message == PartitionTail(text, SP)
    IN  IF InChannels(channel)
        THEN LET s1 == say(s, message, channel)
             IN  IF s1.exc THEN s1
                 ELSE CtlWrite(s1, QUOTE \o message \o QUOTE \o LF)
        ELSE CtlWrite(s, QUOTE \o UNKNOWN_CHANNEL \o channel \o QUOTE \o LF)

----------------------------------------------------------------------------
(* What the environment sends.                                             *)

RECURSIVE Repeat(_, _)
Repeat(c, n) == IF n = 0 THEN <<>> ELSE <<c>> \o Repeat(c, n - 1)

\* ":<nick>!u PRIVMSG <channel> :<botname>: <text>"
Directed(n, channel, text) ==
    COLON \o n \o BANG \o <<"u">> \o SP \o PRIVMSG \o SP \o channel \o SP
          \o COLON \o nick \o COLON \o SP \o text

MsgEcho == PatEcho \o <<"h", "i">>

ChunkPing == PING \o SP \o COLON \o hostname \o CRLF
ChunkEcho == Directed(Alice, ChanA, MsgEcho) \o CRLF
ChunkOpAlice == Directed(Alice, ChanA, CmdOp) \o CRLF
ChunkOpMallory == Directed(Mallory, ChanA, CmdOp) \o CRLF
ChunkError ==
    ERROR \o SP \o KICK \o SP \o ChanA \o SP \o nick \o SP \o PRIVMSG \o SP \o ChanA
          \o SP \o COLON \o nick \o COLON \o CmdPing \o CRLF
\* one line that is a PING, a kick of the bot and a message for the bot
ChunkPingAll ==
    PING \o SP \o KICK \o SP \o ChanA \o SP \o nick \o SP \o PRIVMSG \o SP \o ChanA
         \o SP \o COLON \o nick \o COLON \o CmdPing \o CRLF
ChunkErrorPlain == ERROR \o SP \o COLON \o <<"x">> \o CRLF
ChunkClosed == <<>>

Chunks ==
    {ChunkPingAll, ChunkEcho, ChunkOpAlice, ChunkOpMallory, ChunkError, ChunkClosed}

CtlHello == ChanA \o SP \o <<"h", "i">> \o LF
CtlNope == <<"#", "n">> \o SP \o <<"h", "i">> \o LF
CtlLong == ChanA \o SP \o Repeat("x", CTL_READ_BYTES) \o LF
CtlEnd == LF
\* two input lines that one read of the control connection returns together
CtlTwo == ChanA \o SP \o <<"h", "i">> \o CRLF \o ChanA \o SP \o <<"y", "o">> \o CRLF

CtlInputs == {CtlHello, CtlNope, CtlLong, CtlEnd, CtlTwo}

Outcomes == {"say", "raise", "hang"}

----------------------------------------------------------------------------
(* Plugin registration.  Declaring a subclass of Bot runs                  *)
(* Bot.__init_subclass__ over vars(cls); the class attributes _attrs,      *)
(* _actions and _periodic_tasks of Bot are shared by all subclasses.       *)

\* one entry of vars(cls): its name and the marks that command() / regex()
\* (_registered) and periodic() (_periodic) have left on the value
Attr(name, registered, periodic) ==
    [attr |-> name, registered |-> registered, periodic |-> periodic]

\* Bot._attrs, Bot._actions, Bot._periodic_tasks as the class statement of
\* Bot leaves them; error is the attribute that sys.exit(1) was called for
\* and subclasses the size of Bot._subclasses
NoRegistry ==
    [subclasses |-> 0, attrs |-> <<>>, actions |-> <<>>, periodic_tasks |-> <<>>,
     error |-> ""]

InSeq(x, q) == \E i \in 1..Len(q) : q[i] = x

SkippedAttrs == {"__doc__", "__module__"}

\* mutant: an attribute that already exists is registered once more
RECURSIVE RegisterUnchecked(_, _)
RegisterUnchecked(r, body) ==
    IF body = <<>> THEN r
    ELSE LET a == Head(body)
         IN  IF a.attr \in SkippedAttrs THEN RegisterUnchecked(r, Tail(body))
             ELSE RegisterUnchecked(
                      [r EXCEPT !.attrs = Append(@, a.attr),
                                !.actions = IF a.registered THEN Append(@, a.attr) ELSE @,
                                !.periodic_tasks =
                                    IF a.periodic THEN Append(@, a.attr) ELSE @],
                      Tail(body))

init_subclass_unchecked(r, body) ==
    RegisterUnchecked([r EXCEPT !.subclasses = @ + 1], body)

\* the loop of Bot.__init_subclass__ over vars(cls).items()
RECURSIVE RegisterAttrs(_, _)
RegisterAttrs(r, body) ==
    IF body = <<>> THEN r
    ELSE LET a == Head(body)
         IN  IF a.attr \in SkippedAttrs THEN RegisterAttrs(r, Tail(body))
             ELSE IF InSeq(a.attr, r.attrs) THEN [r EXCEPT !.error = a.attr]
             ELSE RegisterAttrs(
                      [r EXCEPT !.attrs = Append(@, a.attr),
                                !.actions = IF a.registered THEN Append(@, a.attr) ELSE @,
                                !.periodic_tasks =
                                    IF a.periodic THEN Append(@, a.attr) ELSE @],
                      Tail(body))

__init_subclass__(r, body) == RegisterAttrs([r EXCEPT !.subclasses = @ + 1], body)

\* the plugin class of the bot under test: the handlers of _actions and
\* two periodic tasks
PluginBody ==
    <<Attr("__module__", FALSE, FALSE), Attr("__doc__", FALSE, FALSE)>>
        \o [i \in 1..Len(_actions) |-> Attr(_actions[i].name, TRUE, FALSE)]
        \o <<Attr("tick", FALSE, TRUE), Attr("tock", FALSE, TRUE)>>

\* Bot.__new__: type(cls.__name__, tuple(cls._subclasses), {}) declares one
\* more subclass, whose vars are __module__ and __doc__ alone
__new__(r) ==
    __init_subclass__(r, <<Attr("__module__", FALSE, FALSE), Attr("__doc__", FALSE, FALSE)>>)

Registry == __new__(__init_subclass__(NoRegistry, PluginBody))

\* a periodic wrapper that has just been called: in its first sleep
Loop == [st |-> "sleeping", last |-> "none", at |-> 0]

\* Bot._start_periodic_tasks: one wrapper coroutine per registered name
_start_periodic_tasks(r) == [i \in 1..Len(r.periodic_tasks) |-> Loop]

----------------------------------------------------------------------------
(* The specification.                                                      *)

InitWith(chunks) ==
    /\ password \in Passwords
    /\ feed = chunks
    /\ reads = 0
    /\ pc = "connecting"
    /\ cur = <<>>
    /\ rest = <<>>
    /\ conn = 0
    /\ open = FALSE
    /\ triggers = <<>>
    /\ tasks = <<>>
    /\ joins = {}
    /\ ctl = "none"
    /\ ctlReads = 0
    /\ ctlBuf = <<>>
    /\ reg = Registry
    /\ per = _start_periodic_tasks(Registry)
    /\ hist = <<>>

Init == InitWith(Chunks)

Alive == pc \notin {"exited"}

\* a coroutine that awaits another resumes only when that one has finished
MainRunnable ==
    \A i \in 1..Len(tasks) : tasks[i].awaited => tasks[i].st \notin {"ready", "hung"}

\* Bot._start_irc_bot: the first _connect, once open_connection has returned
Connected ==
    /\ pc = "connecting"
    /\ Apply([_connect(St, password) EXCEPT !.pc = "recv"])
    /\ UNCHANGED <<password, feed, reads, ctl, ctlReads, ctlBuf, reg, per>>

\* Bot._start_irc_bot: a read returns data; the chunk is processed up to the
\* next suspension
CanRecv == pc = "recv" /\ MainRunnable /\ reads < MaxReads

Recv(data) ==
    /\ CanRecv
    /\ reads' = reads + 1
    /\ Apply(_process_text(Log([St EXCEPT !.pc = "running", !.reads = reads + 1],
                               "read", 0, data),
                           _recv(data)))
    /\ UNCHANGED <<password, feed, ctl, ctlReads, ctlBuf, reg, per>>

\* Bot._start_irc_bot: asyncio.TimeoutError
TimedOut ==
    /\ pc = "recv"
    /\ MainRunnable
    /\ Apply(_shutdown(Log(St, "timeout", 0, <<>>)))
    /\ UNCHANGED <<password, feed, reads, ctl, ctlReads, ctlBuf, reg, per>>

\* Bot._reconnect resumes: wait_closed() and open_connection have returned;
\* the handshake is sent and the suspended line is processed further
CanReconnect == pc = "reconnecting" /\ MainRunnable

Reconnected ==
    /\ CanReconnect
    /\ Apply(ResumeLine([_connect(St, password) EXCEPT !.pc = "running"], cur, rest))
    /\ UNCHANGED <<password, feed, reads, ctl, ctlReads, ctlBuf, reg, per>>

\* Bot._shutdown resumes: sys.exit(1)
Exit ==
    /\ pc = "shutting"
    /\ Apply(Log([St EXCEPT !.pc = "exited"], "exit", 0, <<>>))
    /\ UNCHANGED <<password, feed, reads, ctl, ctlReads, ctlBuf, reg, per>>

\* mutant: the exception of a handler reaches the receive loop and ends it
TaskExceptionEscapes(s, i) == [s EXCEPT !.tasks[i].st = "raised", !.pc = "exited"]

\* an exception leaves the coroutine of a task: asyncio keeps it in the task
TaskException(s, i) == [s EXCEPT !.tasks[i].st = "raised"]

\* a handler task runs: the require_admin wrapper when the handler has one
\* below its trigger, then the handler body
CanRun(i) == Alive /\ tasks[i].st = "ready"

RunHandler(i, out) ==
    /\ CanRun(i)
    /\ LET t  == tasks[i].trig
           s0 == [As("task", i) EXCEPT !.tasks[i].ran = reads]
       IN  IF _actions[tasks[i].h].gate = "inner" /\ ~require_admin(s0, t)
           THEN Apply([s0 EXCEPT !.tasks[i].st = "skipped"])
           ELSE LET s1 == [s0 EXCEPT !.tasks[i].seen = s0.triggers[t].group]
                IN  CASE out = "say" ->
                           Apply([say(s1, Reply, s1.triggers[t].channel)
                                     EXCEPT !.tasks[i].st = "done"])
                      [] out = "raise" -> Apply(TaskException(s1, i))
                      [] out = "hang" -> Apply([s1 EXCEPT !.tasks[i].st = "hung"])
    /\ UNCHANGED <<password, feed, reads, ctl, ctlReads, ctlBuf, reg, per>>

\* Bot._join_channels of connection k wakes from its sleep
JoinAwake(k) ==
    /\ Alive
    /\ k \in joins
    /\ Apply(_join_channels([As("join", k) EXCEPT !.joins = @ \ {k}]))
    /\ UNCHANGED <<password, feed, reads, ctl, ctlReads, ctlBuf, reg, per>>

\* what one invocation of the body of a periodic task ends with
PeriodicOutcomes == {"return", "raise"}

\* mutant: the exception of the body leaves the wrapper and ends its loop
PeriodicEscapes(l, now) == [l EXCEPT !.st = "stopped", !.last = "raise", !.at = now]

\* periodic: except Exception, log.exception; the while loop goes on to
\* its next sleep
PeriodicException(l, now) == [l EXCEPT !.st = "sleeping", !.last = "raise", !.at = now]

\* periodic: asyncio.sleep(sleep_time) of loop i returns and the body of
\* the task is called
PeriodicWake(i) ==
    /\ Alive
    /\ pc # "declaring"
    /\ i \in 1..Len(per)
    /\ per[i].st = "sleeping"
    /\ per' = [per EXCEPT ![i].st = "running"]
    /\ UNCHANGED <<password, feed, reads, pc, cur, rest, conn, open, triggers,
                   tasks, joins, ctl, ctlReads, ctlBuf, reg, hist>>

\* periodic: the body of the task of loop i returns or raises
PeriodicBody(i, out) ==
    /\ Alive
    /\ i \in 1..Len(per)
    /\ per[i].st = "running"
    /\ per' = [per EXCEPT ![i] =
                  IF out = "raise" THEN PeriodicException(@, reads)
                  ELSE [@ EXCEPT !.st = "sleeping", !.last = "return", !.at = reads]]
    /\ UNCHANGED <<password, feed, reads, pc, cur, rest, conn, open, triggers,
                   tasks, joins, ctl, ctlReads, ctlBuf, reg, hist>>

\* the attributes a plugin class may declare, and the class bodies made of
\* them: vars(cls) is a dict, so the names of one class are distinct
AttrChoices ==
    {Attr("__doc__", FALSE, FALSE)}
        \cup {Attr(n, r, p) : n \in {"ping", "tick"},
                              r \in BOOLEAN, p \in BOOLEAN}

ClassBodies ==
    {<<a>> : a \in AttrChoices}
        \cup {q \in {<<a, b>> : a \in AttrChoices, b \in AttrChoices} :
                  q[1].attr # q[2].attr}

\* a class statement `class Plugin(Bot)`: __init_subclass__ runs, and its
\* sys.exit(1) ends the process
Declare(body) ==
    /\ pc = "declaring"
    /\ reg.subclasses < MaxPlugins
    /\ LET r == __init_subclass__(reg, body)
       IN  /\ reg' = r
           /\ pc' = IF r.error # "" THEN "exited" ELSE pc
    /\ UNCHANGED <<password, feed, reads, cur, rest, conn, open, triggers,
                   tasks, joins, ctl, ctlReads, ctlBuf, per, hist>>

\* Bot(...).run(): the instance is made by Bot.__new__, and
\* asyncio.run(self._run()) starts the receive loop and the loops of the
\* periodic tasks
Run ==
    /\ pc = "declaring"
    /\ pc' = "connecting"
    /\ reg' = __new__(reg)
    /\ per' = _start_periodic_tasks(reg')
    /\ UNCHANGED <<password, feed, reads, cur, rest, conn, open, triggers,
                   tasks, joins, ctl, ctlReads, ctlBuf, hist>>

\* a peer connects to the control socket
CtlConnect ==
    /\ Alive
    /\ ctl = "none"
    /\ ctl' = "open"
    /\ UNCHANGED <<password, feed, reads, pc, cur, rest, conn, open, triggers,
                   tasks, joins, ctlReads, ctlBuf, reg, per, hist>>

\* the control peer sends one input
CtlSend(input) ==
    /\ Alive
    /\ ctl = "open"
    /\ ctlBuf = <<>>
    /\ ctlReads < MaxCtlReads
    /\ ctlReads' = ctlReads + 1
    /\ ctlBuf' = input
    /\ hist' = Append(hist, Ev("ctl_input", "peer", 0, conn, 0, input))
    /\ UNCHANGED <<password, feed, reads, pc, cur, rest, conn, open, triggers,
                   tasks, joins, ctl, reg, per>>

\* Bot._socket_server: one turn of its loop, reader.read(100) having returned
CtlRead ==
    /\ Alive
    /\ ctl = "open"
    /\ ctlBuf # <<>>
    /\ LET n    == IF Len(ctlBuf) < CTL_READ_BYTES THEN Len(ctlBuf) ELSE CTL_READ_BYTES
           data == SubSeq(ctlBuf, 1, n)
           text == Strip(data)
           s1   == _process_socket_server_text(As("ctl", 0), text)
       IN  /\ ctlBuf' = SubSeq(ctlBuf, n + 1, Len(ctlBuf))
           /\ IF BadByte \in {data[j] : j \in 1..Len(data)}
              THEN ctl' = "crashed" /\ Apply(St)
              ELSE IF text = <<>>
              THEN ctl' = "closed" /\ Apply(Log(As("ctl", 0), "ctl_close", 0, <<>>))
              ELSE /\ ctl' = IF s1.exc THEN "crashed" ELSE "open"
                   /\ Apply(s1)
    /\ UNCHANGED <<password, feed, reads, ctlReads, reg, per>>

\* the receive loop, the handler tasks and the join tasks
Next ==
    \/ Connected
    \/ \E data \in feed : Recv(data)
    \/ Reconnected
    \/ Exit
    \/ \E i \in 1..Len(tasks), out \in Outcomes : RunHandler(i, out)
    \/ \E k \in joins : JoinAwake(k)

Spec == Init /\ [][Next]_vars

\* the receive loop and the handler tasks, every join task still in its
\* sleep of 20 seconds
HandlerChunks == {ChunkPingAll, ChunkEcho, ChunkError, ChunkClosed}

InitHandlers == InitWith(HandlerChunks)

NextHandlers ==
    \/ Connected
    \/ \E data \in feed : Recv(data)
    \/ Reconnected
    \/ Exit
    \/ \E i \in 1..Len(tasks), out \in Outcomes : RunHandler(i, out)

SpecHandlers == InitHandlers /\ [][NextHandlers]_vars

\* the same, the server relaying the admin command of an admin and of
\* another user
AdminChunks == {ChunkOpAlice, ChunkOpMallory, ChunkErrorPlain, ChunkClosed}

InitAdmin == InitWith(AdminChunks)

SpecAdmin == InitAdmin /\ [][NextHandlers]_vars

\* the receive loop, the handler tasks and the join tasks, the server
\* sending a PING line with a kick and a message, and bare ERROR lines
JoinChunks == {ChunkPingAll, ChunkErrorPlain, ChunkClosed}

InitJoins == InitWith(JoinChunks)

SpecJoins == InitJoins /\ [][Next]_vars

\* the receive loop and the control connection, the server sending no
\* message for a handler
CtlChunks == {ChunkPing, ChunkErrorPlain, ChunkClosed}

InitCtl == InitWith(CtlChunks)

NextCtl ==
    \/ Connected
    \/ \E data \in feed : Recv(data)
    \/ TimedOut
    \/ Reconnected
    \/ Exit
    \/ \E k \in joins : JoinAwake(k)
    \/ CtlConnect
    \/ \E input \in CtlInputs : CtlSend(input)
    \/ CtlRead

SpecCtl == InitCtl /\ [][NextCtl]_vars

\* the receive loop and the loops of the periodic tasks; a sleep ends and
\* an invocation of a task body returns or raises
PeriodicChunks == {ChunkPing, ChunkErrorPlain, ChunkClosed}

InitPeriodic == InitWith(PeriodicChunks)

PIdx == 1..Len(Registry.periodic_tasks)

NextPeriodic ==
    \/ Connected
    \/ \E data \in feed : Recv(data)
    \/ Reconnected
    \/ Exit
    \/ \E i \in PIdx : PeriodicWake(i)
    \/ \E i \in PIdx, out \in PeriodicOutcomes : PeriodicBody(i, out)

SpecPeriodic ==
    /\ InitPeriodic
    /\ [][NextPeriodic]_vars
    /\ \A i \in PIdx :
          /\ WF_vars(PeriodicWake(i))
          /\ WF_vars(\E out \in PeriodicOutcomes : PeriodicBody(i, out))

\* the start of the program: plugin classes are declared, then the bot is
\* constructed and run
InitRegister ==
    /\ password \in Passwords
    /\ feed = {ChunkPing, ChunkClosed}
    /\ reads = 0
    /\ pc = "declaring"
    /\ cur = <<>>
    /\ rest = <<>>
    /\ conn = 0
    /\ open = FALSE
    /\ triggers = <<>>
    /\ tasks = <<>>
    /\ joins = {}
    /\ ctl = "none"
    /\ ctlReads = 0
    /\ ctlBuf = <<>>
    /\ reg = NoRegistry
    /\ per = <<>>
    /\ hist = <<>>

NextRegister ==
    \/ \E body \in ClassBodies : Declare(body)
    \/ Run
    \/ Connected

SpecRegister == InitRegister /\ [][NextRegister]_vars

\* the receive loop alone, the bytes of the server arriving in reads that
\* end anywhere: whole lines, the two parts of a line cut at any position,
\* a line terminator alone, and lines with an empty line between them
ChunkBlank == CRLF
ChunkGap == ChunkPing \o CRLF \o ChunkPing

WholeChunks == {ChunkPing, ChunkErrorPlain}

Cuts(chunk) ==
    UNION {{SubSeq(chunk, 1, k), SubSeq(chunk, k + 1, Len(chunk))} :
              k \in 1..(Len(chunk) - 1)}

ReadChunks ==
    WholeChunks \cup UNION {Cuts(c) : c \in WholeChunks}
        \cup {ChunkBlank, ChunkGap, ChunkClosed}

InitReads == InitWith(ReadChunks)

NextReads ==
    \/ Connected
    \/ \E data \in feed : Recv(data)
    \/ Reconnected
    \/ Exit

SpecReads == InitReads /\ [][NextReads]_vars

\* the dispatcher alone: one read that holds one line, the line drawn from
\* the messages for the bot and from lines that are near to one
Nicks == {Alice, Mallory}

Texts ==
    {CmdPing, MsgEcho, <<>>, SP \o CmdOp \o SP, <<"a", ":", "b">>,
     <<"x">> \o SP \o PRIVMSG \o SP \o ChanAB}

Senders == {<<>>, COLON \o Alice \o BANG \o <<"u">> \o SP, COLON \o nick \o COLON \o SP}

Commands ==
    {PRIVMSG \o SP \o ChanA \o SP \o COLON,
     PRIVMSG \o SP \o ChanA \o SP,
     <<"N", "O", "T", "I", "C", "E">> \o SP \o ChanA \o SP \o COLON,
     KICK \o SP \o ChanA \o SP \o nick \o SP \o COLON,
     KICK \o SP \o ChanAB \o SP \o nick \o SP \o COLON,
     KICK \o SP \o ChanA \o SP \o nick \o <<"t">> \o SP \o COLON}

Payloads ==
    {nick \o COLON \o SP \o CmdPing,
     nick \o SP \o CmdPing,
     SP \o nick \o COLON \o SP \o CmdPing,
     <<"h", "i">> \o SP \o nick \o COLON \o SP \o CmdPing,
     nick \o <<"t">> \o COLON \o SP \o CmdPing,
     CmdPing,
     <<>>}

LineFeed ==
    {Directed(n, channels[c], x) \o CRLF :
        n \in Nicks, c \in 1..Len(channels), x \in Texts}
    \cup {a \o b \o c \o CRLF : a \in Senders, b \in Commands, c \in Payloads}

InitLines == InitWith(LineFeed)

RecvLine(data) == reads = 0 /\ Recv(data)

NextLines ==
    \/ Connected
    \/ \E data \in feed : RecvLine(data)

SpecLines == InitLines /\ [][NextLines]_vars

----------------------------------------------------------------------------
(* Reading hist.                                                           *)

HIdx == 1..Len(hist)

Min(S) == CHOOSE x \in S : \A y \in S : x <= y

IsWrite(j) == hist[j].e \in {"write", "lost"}

\* the entries the receive loop made while it processed the line entered
\* at hist[i]: those of the main coroutine up to the next line or read
NextLine(i) ==
    LET later == {j \in HIdx : j > i /\ hist[j].e \in {"line", "read"}}
    IN  IF later = {} THEN Len(hist) + 1 ELSE Min(later)

MainEffects(i) == {j \in (i + 1)..(NextLine(i) - 1) : hist[j].by = "main"}

IsJoinWrite(j) == IsWrite(j) /\ StartsWith(hist[j].data, JOIN \o SP)

PongLine == PONG \o SP \o COLON \o hostname \o CRLF
UserLine == USER \o SP \o nick \o SP \o <<"8", " ", "*", " ", ":">> \o nick \o CRLF
NickLine == NICK \o SP \o nick \o CRLF
IdentifyLine(pw) == PRIVMSG \o SP \o NICKSERV_IDENTIFY \o pw \o CRLF
JoinLine(c) == JOIN \o SP \o c \o CRLF

----------------------------------------------------------------------------
(* C1: a line that begins with PING is answered with PONG :<hostname> on   *)
(* the current, open connection as the very first effect of processing    *)
(* it: the write directly follows the entry of the line, so the close and *)
(* reopen of an error, the shutdown of an empty line, the JOIN of a kick, *)
(* the Triggers and the launches of that line all come after it, and a    *)
(* task launched from the line has not run before it.                     *)
C1_PongFirst ==
    \A i \in HIdx :
        (hist[i].e = "line" /\ StartsWith(hist[i].data, PING)) =>
            /\ i + 1 <= Len(hist)
            /\ hist[i + 1] = Ev("write", "main", 0, hist[i].conn, 0, PongLine)
            /\ \A j \in MainEffects(i) :
                  hist[j].e \in {"close", "open", "trigger", "launch"} \/ IsJoinWrite(j)
                      => j > i + 1

\* a PING line that also reports a kick and carries a message for the bot:
\* JOIN written, handler launched, and the handler has run
C1_Witness ==
    \E i \in HIdx :
        /\ hist[i].e = "line" /\ StartsWith(hist[i].data, PING)
        /\ \E j, k \in MainEffects(i) :
              /\ IsJoinWrite(j)
              /\ hist[k].e = "launch"
              /\ tasks[hist[k].id].st = "done"

(* C2: a line that begins with ERROR causes exactly one reconnection and   *)
(* nothing else: after it, the same line causes no JOIN write of the       *)
(* receive loop, no Trigger and no launch.                                 *)
C2_ErrorHalts ==
    \A i \in HIdx :
        (hist[i].e = "line" /\ StartsWith(hist[i].data, ERROR)) =>
            /\ Cardinality({j \in MainEffects(i) : hist[j].e = "close"}) = 1
            /\ Cardinality({j \in MainEffects(i) : hist[j].e = "open"}) <= 1
            /\ \A j \in MainEffects(i) :
                  hist[j].e \notin {"trigger", "launch"} /\ ~IsJoinWrite(j)

(* C3: every connection but the first is opened after the one before it    *)
(* has been closed; the first writes on every connection are USER, NICK    *)
(* and, exactly when a password is configured, the NickServ IDENTIFY; the  *)
(* join task of a connection is left asleep by the step that opens the     *)
(* connection, which goes on with the receive loop, and, once awake, it    *)
(* writes one JOIN for every configured channel, after the handshake of    *)
(* its connection.                                                         *)
OpenAt(k) == Min({j \in HIdx : hist[j].e = "open" /\ hist[j].conn = k})

HandshakeLen == IF password # <<>> THEN 3 ELSE 2

JoinsOf(k, c) ==
    {j \in HIdx : IsWrite(j) /\ hist[j].by = "join" /\ hist[j].who = k
                    /\ hist[j].data = JoinLine(c)}

C3_Inv ==
    /\ \A k \in 1..conn :
          LET o == OpenAt(k)
          IN  /\ Cardinality({j \in HIdx : hist[j].e = "open" /\ hist[j].conn = k}) = 1
              /\ k > 1 => \E j \in 1..(o - 1) :
                              hist[j].e = "close" /\ hist[j].conn = k - 1
              /\ o + HandshakeLen <= Len(hist)
              /\ hist[o + 1] = Ev("write", "main", 0, k, 0, UserLine)
              /\ hist[o + 2] = Ev("write", "main", 0, k, 0, NickLine)
              /\ password # <<>> =>
                    hist[o + 3] = Ev("write", "main", 0, k, 0, IdentifyLine(password))
              /\ IF k \in joins
                 THEN \A i \in 1..Len(channels) : JoinsOf(k, channels[i]) = {}
                 ELSE /\ \A i \in 1..Len(channels) :
                            /\ Cardinality(JoinsOf(k, channels[i])) = 1
                            /\ \A j \in JoinsOf(k, channels[i]) :
                                  j > o + HandshakeLen /\ hist[j].conn >= k
                      /\ \A i \in 1..(Len(channels) - 1) :
                            \A j \in JoinsOf(k, channels[i]) :
                                j + 1 \in JoinsOf(k, channels[i + 1])
    /\ \A j \in HIdx :
          (IsWrite(j) /\ StartsWith(hist[j].data, PRIVMSG \o SP \o NICKSERV_IDENTIFY))
              => password # <<>>

C3_Step ==
    conn' # conn =>
        /\ conn' = conn + 1
        /\ ~open /\ open'
        /\ conn' \in joins'
        /\ pc' \in {"recv", "reconnecting", "shutting"}

----------------------------------------------------------------------------
(* Reading tasks.                                                          *)

TIdx == 1..Len(tasks)

\* the handler body of task i has been entered
BodyRan(i) == tasks[i].st \in {"done", "raised", "hung"}

NickOf(i) == triggers[tasks[i].trig].nick

\* handler h is to be launched for Trigger t: its trigger matches the
\* message, and an admin gate above the trigger lets the sender through
Expected(h, t) ==
    /\ IF _actions[h].kind = "command"
       THEN triggers[t].message = _actions[h].pat
       ELSE ReMatch(_actions[h].pat, triggers[t].message).ok
    /\ _actions[h].gate = "outer" => triggers[t].nick \in admins

Launched(h, t) == \E j \in TIdx : tasks[j].h = h /\ tasks[j].trig = t

\* the receive loop is not held up
LoopFree ==
    /\ (pc = "recv" /\ reads < MaxReads) => CanRecv
    /\ pc = "reconnecting" => CanReconnect

\* a step that changes nothing but the state of task i
OnlyTask(i) ==
    /\ UNCHANGED <<pc, cur, rest, conn, open, reads, joins, hist, ctl, per>>
    /\ Len(tasks') = Len(tasks)
    /\ \A j \in TIdx : j # i => tasks'[j] = tasks[j]

(* C5: when a handler raises, the step changes nothing but that task: the  *)
(* receive loop stays where it is and the process keeps running; every     *)
(* other handler matched on the same Trigger has been launched and can     *)
(* still run, and the loop can read and dispatch the next chunk.           *)
C5_Inv ==
    \A i \in TIdx :
        tasks[i].st = "raised" =>
            /\ \A h \in 1..Len(_actions) :
                  Expected(h, tasks[i].trig) => Launched(h, tasks[i].trig)
            /\ LoopFree
            /\ pc # "exited" => \A j \in TIdx : tasks[j].st = "ready" => CanRun(j)

C5_Step ==
    \A i \in TIdx : (tasks[i].st = "ready" /\ tasks'[i].st = "raised") => OnlyTask(i)

C5_HandlerFaultContained == [](C5_Inv) /\ [][C5_Step]_vars

\* a handler raised after the first read; another handler matched on the
\* same Trigger ran after the second read, and so did a handler launched
\* from the second read
C5_Witness ==
    \E i, j, k \in TIdx :
        /\ tasks[i].st = "raised" /\ tasks[i].ran = 1
        /\ j # i /\ tasks[j].trig = tasks[i].trig
        /\ tasks[j].st = "done" /\ tasks[j].ran = 2
        /\ tasks[k].born = 2 /\ tasks[k].st = "done"

(* C6: no handler task is awaited by the dispatch loop: while a handler    *)
(* hangs, every handler matched on the same Trigger has been launched and  *)
(* the receive loop can read and process the next chunk.                   *)
C6_LoopNeverWaits ==
    /\ \A i \in TIdx : ~tasks[i].awaited
    /\ \A i \in TIdx :
          tasks[i].st \in {"ready", "hung"} =>
              /\ \A h \in 1..Len(_actions) :
                    Expected(h, tasks[i].trig) => Launched(h, tasks[i].trig)
              /\ LoopFree

\* a handler hung after the first read; a handler registered after it was
\* launched on the same Trigger; the second read brought a PING that was
\* answered and a message whose handler was launched and has run
C6_Witness ==
    \E i, j, k \in TIdx :
        /\ tasks[i].st = "hung" /\ tasks[i].ran = 1
        /\ tasks[j].trig = tasks[i].trig /\ tasks[j].h > tasks[i].h
        /\ tasks[k].born = 2 /\ tasks[k].st = "done"
        /\ \E n \in HIdx :
              /\ hist[n].e = "line" /\ StartsWith(hist[n].data, PING)
              /\ \E m \in 1..n :
                    hist[m].e = "read" /\ Cardinality({r \in 1..m : hist[r].e = "read"}) = 2
              /\ hist[n + 1].data = PongLine

(* C7: every pattern handler, when its body is entered, finds in           *)
(* trigger.group the groups of its own pattern's match.                    *)
C7_OwnGroups ==
    \A i \in TIdx :
        (BodyRan(i) /\ _actions[tasks[i].h].kind = "regex") =>
            tasks[i].seen = tasks[i].own

(* C8: the body of an admin-gated handler is entered only for a Trigger    *)
(* whose nick is an admin, with the gate above or below the trigger; a     *)
(* handler is launched for a Trigger exactly when its trigger matches and  *)
(* a gate above it lets the sender through, so the skip stops no other     *)
(* handler; and the skip of a gate below the trigger changes nothing but   *)
(* the task: no write, no error, the loop as it was.                       *)
C8_Inv ==
    /\ \A i \in TIdx :
          (BodyRan(i) /\ _actions[tasks[i].h].gate # "none") => NickOf(i) \in admins
    /\ \A i \in TIdx :
          tasks[i].st = "skipped" =>
              /\ NickOf(i) \notin admins
              /\ tasks[i].seen = None
              /\ LoopFree
    /\ \A t \in 1..Len(triggers) : \A h \in 1..Len(_actions) :
          Launched(h, t) <=> Expected(h, t)

C8_Step ==
    \A i \in TIdx : (tasks[i].st = "ready" /\ tasks'[i].st = "skipped") => OnlyTask(i)

C8_AdminGate == [](C8_Inv) /\ [][C8_Step]_vars

\* a non-admin sent the admin command: the handler gated above its trigger
\* was not launched, the one gated below it was skipped, and a handler
\* launched from the next read has run
C8_Witness ==
    \E i, k \in TIdx :
        /\ NickOf(i) = Mallory
        /\ _actions[tasks[i].h].gate = "inner"
        /\ tasks[i].st = "skipped"
        /\ \E h \in 1..Len(_actions) :
              /\ _actions[h].gate = "outer"
              /\ triggers[tasks[i].trig].message = _actions[h].pat
              /\ ~Launched(h, tasks[i].trig)
        /\ tasks[k].born > tasks[i].born
        /\ tasks[k].st = "done"

----------------------------------------------------------------------------
(* Claims about the dispatcher alone, under SpecLines.                     *)

\* the Triggers made while the line entered at hist[i] was processed
TriggersOf(i) == {hist[j].id : j \in {m \in MainEffects(i) : hist[m].e = "trigger"}}

(* C4: processing a line :<nick>!<user> PRIVMSG <C> :<botname>: <text>,    *)
(* C a configured channel, makes exactly one Trigger, with channel C, the  *)
(* nick, and the text with surrounding whitespace trimmed.                 *)
C4_OneTrigger ==
    \A i \in HIdx : \A n \in Nicks : \A c \in 1..Len(channels) : \A x \in Texts :
        (hist[i].e = "line" /\ hist[i].data = Strip(Directed(n, channels[c], x))) =>
            /\ Cardinality(TriggersOf(i)) = 1
            /\ \A t \in TriggersOf(i) :
                  /\ triggers[t].channel = channels[c]
                  /\ triggers[t].nick = n
                  /\ triggers[t].message = Strip(x)

(* C9: a line whose PRIVMSG payload, the text after the first ":" that     *)
(* follows the first PRIVMSG, does not begin with <botname>: makes no      *)
(* Trigger and launches no handler; a line without PRIVMSG has no payload. *)
PayloadStart(line) ==
    LET ps == {p \in 1..Len(line) :
                  p + Len(PRIVMSG) - 1 <= Len(line)
                  /\ \A d \in 1..Len(PRIVMSG) : line[p + d - 1] = PRIVMSG[d]}
    IN  IF ps = {} THEN 0
        ELSE LET after == Min(ps) + Len(PRIVMSG)
                 qs    == {q \in after..Len(line) : line[q] = ":"}
             IN  IF qs = {} THEN 0 ELSE Min(qs) + 1

ForBot(line) ==
    LET b == PayloadStart(line)
    IN  /\ b # 0
        /\ b + Len(nick) <= Len(line)
        /\ \A d \in 1..Len(nick) : line[b + d - 1] = nick[d]
        /\ line[b + Len(nick)] = ":"

C9_NotForBot ==
    \A i \in HIdx :
        (hist[i].e = "line" /\ ~ForBot(hist[i].data)) =>
            \A j \in MainEffects(i) : hist[j].e \notin {"trigger", "launch"}

\* a channel message that names the bot after other words, and a line that
\* begins with the bot's name but is no PRIVMSG: both processed, no Trigger
C9_Witness ==
    /\ pc = "recv"
    /\ reads = 1
    /\ triggers = <<>>
    /\ \E i \in HIdx :
          /\ hist[i].e = "line"
          /\ Contains(hist[i].data, nick \o COLON)
          /\ ~ForBot(hist[i].data)

----------------------------------------------------------------------------
(* Claims about the control connection, under SpecCtl.                     *)

\* what the control connection did for the input entered at hist[i]
CtlEffects(i) ==
    LET later == {j \in HIdx : j > i /\ hist[j].e = "ctl_input"}
        until == IF later = {} THEN Len(hist) + 1 ELSE Min(later)
    IN  {j \in (i + 1)..(until - 1) : hist[j].by = "ctl"}

(* C10: for a control input <channel> <text>, once it has been read: if    *)
(* the channel is configured, exactly PRIVMSG <channel> :<text> is written *)
(* to the IRC connection and an acknowledgment containing <text> is        *)
(* echoed; if not, an Unknown channel notice is echoed and nothing is      *)
(* written to the IRC connection.                                          *)
C10_ControlRelay ==
    \A i \in HIdx :
        (hist[i].e = "ctl_input" /\ ctlBuf = <<>> /\ Strip(hist[i].data) # <<>>) =>
            LET line    == Strip(hist[i].data)
                channel == PartitionHead(line, SP)
                text    == PartitionTail(line, SP)
                sent    == {j \in CtlEffects(i) : IsWrite(j)}
            IN  IF InChannels(channel)
                THEN /\ Cardinality(sent) = 1
                     /\ \A j \in sent :
                           /\ hist[j].e = "write"
                           /\ hist[j].data =
                                 PRIVMSG \o SP \o channel \o SP \o COLON \o text \o CRLF
                     /\ \E j \in CtlEffects(i) :
                           hist[j].e = "ctl_write" /\ Contains(hist[j].data, text)
                ELSE /\ sent = {}
                     /\ \E j \in CtlEffects(i) :
                           /\ hist[j].e = "ctl_write"
                           /\ Contains(hist[j].data, UNKNOWN_CHANNEL \o channel)

(* C11: every PRIVMSG that a send puts on the wire for a channel is one    *)
(* protocol line: the bytes written hold no line terminator before the     *)
(* CRLF that ends them, whatever the message text, the text relayed from   *)
(* one control read included.                                              *)
IsSend(j) ==
    /\ IsWrite(j)
    /\ hist[j].by \in {"task", "ctl"}
    /\ \E n \in 1..Len(channels) :
          StartsWith(hist[j].data, PRIVMSG \o SP \o channels[n] \o SP \o COLON)

C11_OneLinePerSend ==
    \A j \in HIdx :
        IsSend(j) =>
            LET data == hist[j].data
            IN  /\ SubSeq(data, Len(data) - 1, Len(data)) = CRLF
                /\ \A n \in 1..(Len(data) - 2) : data[n] \notin {"\r", "\n"}

----------------------------------------------------------------------------
(* C12: once the receive timeout has expired, the receive loop is          *)
(* reconnecting or has reconnected: the process does not shut down, and a  *)
(* connection newer than the one that timed out is opened.                 *)
C12_TimeoutReconnects ==
    \A i \in HIdx :
        hist[i].e = "timeout" =>
            /\ pc \notin {"shutting", "exited"}
            /\ pc # "reconnecting" =>
                  \E j \in HIdx : j > i /\ hist[j].e = "open" /\ hist[j].conn > hist[i].conn

----------------------------------------------------------------------------
(* C13: once a read of the server connection has returned no data, the     *)
(* receive loop is reconnecting or has reconnected: the process does not   *)
(* terminate, the transport is closed and a newer connection is opened     *)
(* with the handshake sent on it.                                          *)
C13_EmptyReadReconnects ==
    \A i \in HIdx :
        (hist[i].e = "read" /\ hist[i].data = <<>>) =>
            /\ pc \notin {"shutting", "exited"}
            /\ \E j \in HIdx : j > i /\ hist[j].e = "close" /\ hist[j].conn = hist[i].conn
            /\ pc # "reconnecting" =>
                  \E j \in HIdx :
                      /\ j > i /\ hist[j].e = "open" /\ hist[j].conn > hist[i].conn
                      /\ j + 2 <= Len(hist)
                      /\ hist[j + 1].data = UserLine
                      /\ hist[j + 2].data = NickLine

----------------------------------------------------------------------------
(* Claims about the periodic tasks, under SpecPeriodic.                    *)

\* a step of loop i alone: no other loop, nothing of the receive loop and
\* nothing on the wire changes
OnlyLoop(i) ==
    /\ UNCHANGED <<pc, cur, rest, conn, open, reads, tasks, joins, hist, ctl, reg>>
    /\ Len(per') = Len(per)
    /\ \A j \in 1..Len(per) : j # i => per'[j] = per[j]

C14_Inv ==
    /\ Len(per) = Len(reg.periodic_tasks)
    /\ \A i \in 1..Len(per) : per[i].st \in {"sleeping", "running"}
    /\ LoopFree

C14_Step ==
    \A i \in PIdx :
        /\ per'[i] # per[i] => OnlyLoop(i)
        \* the body is entered only out of a sleep, the first time included
        /\ (per[i].st # "running" /\ per'[i].st = "running") => per[i].st = "sleeping"
        \* and every end of the body, a failure too, leads to the next sleep
        /\ (per[i].st = "running" /\ per'[i].st # "running") => per'[i].st = "sleeping"

C14_Live ==
    \A i \in PIdx : []<>(pc = "exited" \/ per[i].st = "running")

(* C14: every periodic task has its own loop, which calls the body only    *)
(* out of a sleep, the first call included; a body that raises leaves its  *)
(* loop in the next sleep and changes no other loop and nothing of the     *)
(* receive loop, which can read on; and while the process runs every       *)
(* periodic task is invoked again and again.                               *)
C14_PeriodicLoops == [](C14_Inv) /\ [][C14_Step]_vars /\ C14_Live

\* the first task failed before the last read and has been invoked again,
\* the second task is in its body, and the receive loop has read since
C14_Witness ==
    /\ Len(per) = 2
    /\ per[1].st = "running" /\ per[1].last = "raise" /\ per[1].at < reads
    /\ per[2].st = "running" /\ per[2].last = "return"
    /\ pc = "recv"

----------------------------------------------------------------------------
(* Claims about plugin registration, under SpecRegister.                   *)

Distinct(q) == \A i, j \in 1..Len(q) : i # j => q[i] # q[j]

IsPrefix(q, r) == Len(q) <= Len(r) /\ SubSeq(r, 1, Len(q)) = q

C15_Inv ==
    /\ reg.error # "" => pc = "exited"
    /\ pc \notin {"declaring", "exited"} =>
          /\ Distinct(reg.attrs)
          /\ Distinct(reg.actions)
          /\ Distinct(reg.periodic_tasks)

C15_Step ==
    reg' # reg =>
        \* the process exits exactly for a name that was already declared
        /\ pc' = "exited" <=> reg'.error # ""
        /\ reg'.error # "" => InSeq(reg'.error, reg.attrs)
        \* and nothing that was registered is overwritten
        /\ IsPrefix(reg.attrs, reg'.attrs)
        /\ IsPrefix(reg.actions, reg'.actions)
        /\ IsPrefix(reg.periodic_tasks, reg'.periodic_tasks)

(* C15: declaring a plugin class with an attribute name that an earlier    *)
(* plugin class declared ends the process and overwrites nothing, so in    *)
(* every running bot the names of the handler registry and those of the    *)
(* periodic-task registry are pairwise distinct.                           *)
C15_UniqueNames == [](C15_Inv) /\ [][C15_Step]_vars

\* the second plugin class declared a handler named like a handler of the
\* first: the process has exited, the registry holds the name once
C15_Witness ==
    /\ pc = "exited"
    /\ reg.subclasses = 2
    /\ reg.error = "ping"
    /\ reg.actions = <<"ping">>

----------------------------------------------------------------------------
(* Claims about the reads of the server connection, under SpecReads.       *)

ReadIdx == {i \in HIdx : hist[i].e = "read"}

\* the read that follows read i ( Len(hist) + 1 when there is none )
NextRead(i) ==
    LET later == {j \in ReadIdx : j > i}
    IN  IF later = {} THEN Len(hist) + 1 ELSE Min(later)

\* the lines processed from read i
LinesOf(i) == {l \in (i + 1)..(NextRead(i) - 1) : hist[l].e = "line"}

(* C16: when the bytes of one line arrive in two successive reads, the     *)
(* line is processed once, whole, and no part of it is processed as a line *)
(* of its own.                                                             *)
C16_WholeLines ==
    \A i \in ReadIdx :
        LET j == NextRead(i)
        IN  (/\ j <= Len(hist)
             /\ hist[i].data # <<>> /\ hist[j].data # <<>>
             /\ hist[i].data \o hist[j].data \in WholeChunks
             /\ pc \in {"recv", "exited"}) =>
                LET ls == LinesOf(i) \cup LinesOf(j)
                IN  /\ Cardinality(ls) = 1
                    /\ \A l \in ls : hist[l].data = Strip(hist[i].data \o hist[j].data)

(* C19: the bot shuts down for an empty response only when the read        *)
(* itself returned no bytes: while the last read delivered data, the       *)
(* receive loop is not shutting down and the process has not exited.       *)
C19_DataNeverShutsDown ==
    \A i \in ReadIdx :
        (NextRead(i) > Len(hist) /\ hist[i].data # <<>>) =>
            pc \notin {"shutting", "exited"}

----------------------------------------------------------------------------
(* C17: every write of the receive loop, a handler task, the control       *)
(* connection or a join task is made on a connection that exists and is    *)
(* open: none is made on a transport that has been closed, and the control *)
(* connection does not fail on a writer that is not there yet.             *)
C17_WritesOnOpen ==
    /\ \A j \in HIdx : IsWrite(j) => (hist[j].e = "write" /\ hist[j].conn > 0)
    /\ ctl = "crashed" => conn > 0

(* C18: the join task spawned by the handshake of connection k writes its  *)
(* JOIN lines to connection k only, so every connection gets one JOIN per  *)
(* configured channel from the join tasks, and none from the join task of  *)
(* an earlier connection.                                                  *)
C18_JoinOwnConnection ==
    /\ \A j \in HIdx :
          (IsWrite(j) /\ hist[j].by = "join") => hist[j].conn = hist[j].who
    /\ \A k \in 1..conn : \A n \in 1..Len(channels) :
          Cardinality({j \in HIdx : /\ IsWrite(j) /\ hist[j].by = "join"
                                    /\ hist[j].conn = k
                                    /\ hist[j].data = JoinLine(channels[n])}) <= 1

----------------------------------------------------------------------------
(* C20: for every line and every configured channel C, the receive loop    *)
(* writes one JOIN C while it processes the line, before the Triggers and  *)
(* launches of the line, if the line is a KICK of the bot's nick from C,   *)
(* and writes no JOIN C if it is not, as when the nick kicked only begins  *)
(* with the bot's nick.                                                    *)

\* the line is the command KICK <c> <nick>, after its prefix if it has one
Kicked(line, c) ==
    LET ws == Split(line, SP)
        k  == IF StartsWith(line, COLON) THEN 2 ELSE 1
    IN  /\ Len(ws) >= k + 2
        /\ ws[k] = KICK
        /\ ws[k + 1] = c
        /\ ws[k + 2] = nick

C20_RejoinOwnKick ==
    \A i \in HIdx : \A n \in 1..Len(channels) :
        hist[i].e = "line" =>
            LET c  == channels[n]
                js == {j \in MainEffects(i) : IsWrite(j) /\ hist[j].data = JoinLine(c)}
            IN  IF Kicked(hist[i].data, c)
                THEN /\ Cardinality(js) = 1
                     /\ \A j \in js : \A m \in MainEffects(i) :
                           hist[m].e \in {"trigger", "launch"} => j < m
                ELSE js = {}

====
